---- MODULE Spec2Model ----
(***************************************************************************)
(* Model of src/utils.py, prepare_keyword_split_csv(messages,             *)
(* max_keywords): the keyword-split CSV export of a chat transcript.       *)
(*                                                                         *)
(* Text is a sequence of atoms.  An atom is one character ("a", " ",       *)
(* "\n", ",") or a literal word of the program that contains none of the   *)
(* characters line splitting, trimming or CSV quoting look at ("role",     *)
(* "keyword_", " truncated)").  Concatenation of texts is \o.              *)
(*                                                                         *)
(* A message record (a Python dict) is a function from the keys it holds   *)
(* to texts.  The dict the first loop appends to rows is the record        *)
(* [role, name, content, kws]; its field kws is the key "_kws".  The dict  *)
(* the second loop builds is a sequence of <<key, value>> pairs, in        *)
(* insertion order, which is the order pandas gives the columns.           *)
(***************************************************************************)
EXTENDS Integers, Sequences, FiniteSets, TLC

VARIABLES
    messages,      \* the caller's list of message records (argument 1)
    max_keywords,  \* argument 2
    pc,            \* position of the call
    idx,           \* number of loop iterations done in the current loop
    rows,          \* local rows (line 13)
    max_kw,        \* local max_kw (line 14)
    out_rows,      \* local out_rows (line 32)
    df_out,        \* the DataFrame of line 39: [columns, data]
    result,        \* the returned bytes (line 42)
    given,         \* the caller's own copy of the argument list, taken before the call
    calls,         \* calls still to be made by the caller (SpecCalls)
    returned,      \* what earlier calls returned: set of <<messages, max_keywords, bytes>>
    error,         \* the exception the call raised to its caller ("" when it returned)
    quote_cr       \* the interpreter's csv.writer quotes a field for a bare "\r" in it
                   \* (it does from Python 3.13 on; before, only for the characters of
                   \* the line terminator, which pandas sets to "\n")

\* several calls of prepare_keyword_split_csv at once
VARIABLES
    threads,       \* per thread: its arguments, its position, its result
    frames         \* per call frame: the locals rows and max_kw (lines 13-14)

\* check_rate_limit (src/app.py lines 23-54)
VARIABLES
    request_count,            \* st.session_state.request_count: api_key -> list of times
    current_time,             \* what time.time() returns at the latest call
    max_requests_per_minute,  \* argument 2, the same at every call
    checked                   \* every call so far: [api_key, time, ok, before, after]

\* save_log (src/app.py lines 633-662)
VARIABLES
    log_pc,        \* position of the invocation
    sheets,        \* both secrets of line 638 are set
    debug_mode,    \* st.secrets.get("DEBUG_MODE", False), line 661
    loop_i,        \* the loop variable i of line 646
    tried,         \* the outcome of every append_row call of the invocation, in order
    slept,         \* the argument of every time.sleep call, as <<numerator, denominator>>
    raised,        \* the exception in flight inside the try block ("" when none)
    shown,         \* what the invocation displayed: "warning", "error"
    escaped        \* the exception the invocation raised to its caller ("" when none)

utilsVars == <<messages, max_keywords, pc, idx, rows, max_kw, out_rows, df_out, result,
               given, calls, returned, error, quote_cr>>
threadVars == <<threads, frames>>
rateVars == <<request_count, current_time, max_requests_per_minute, checked>>
logVars == <<log_pc, sheets, debug_mode, loop_i, tried, slept, raised, shown, escaped>>

\* call_dify (src/app.py lines 1264-1285)
VARIABLES
    dify_pc,       \* position of the top-level call
    retry_count,   \* argument 2 of the activation that runs
    posts,         \* every requests.post call so far: [timeout, exc, status]
    waited,        \* the argument of every time.sleep call, in order
    dify_out       \* how the top-level call ended: [exc, status]

\* the chat session (src/app.py lines 694-745, 875-935, 1217-1442)
VARIABLES
    page,          \* st.session_state.page
    cid,           \* st.session_state.cid
    bot_type,      \* st.session_state.bot_type
    persona_cids,  \* st.session_state.persona_cids: persona -> conversation id
    turn           \* the user action just ended: what it was and what it sent and got

difyVars == <<dify_pc, retry_count, posts, waited, dify_out>>
chatVars == <<page, cid, bot_type, persona_cids, turn>>
appVars == <<difyVars, chatVars>>

vars == <<utilsVars, threadVars, rateVars, logVars, appVars>>

\* the parts of the program a specification does not run stay as they are
NoCall ==
    /\ messages = <<>>
    /\ max_keywords = 1
    /\ given = <<>>
    /\ pc = "idle"
    /\ idx = 0
    /\ rows = <<>>
    /\ max_kw = 0
    /\ out_rows = <<>>
    /\ df_out = [columns |-> <<>>, data |-> <<>>]
    /\ result = <<>>
    /\ calls = 0
    /\ returned = {}
    /\ error = ""
    /\ quote_cr = FALSE

NoThreads == threads = <<>> /\ frames = <<>>

NoChecks ==
    /\ request_count = <<>>
    /\ current_time = 0
    /\ max_requests_per_minute = 1
    /\ checked = <<>>

NoLog ==
    /\ log_pc = "idle"
    /\ sheets = FALSE
    /\ debug_mode = FALSE
    /\ loop_i = 0
    /\ tried = <<>>
    /\ slept = <<>>
    /\ raised = ""
    /\ shown = <<>>
    /\ escaped = ""

NoDify ==
    /\ dify_pc = "idle"
    /\ retry_count = 0
    /\ posts = <<>>
    /\ waited = <<>>
    /\ dify_out = [exc |-> "", status |-> 0]

NoChat ==
    /\ page = "idle"
    /\ cid = <<>>
    /\ bot_type = ""
    /\ persona_cids = <<>>
    /\ turn = [action |-> ""]

NoApp == NoDify /\ NoChat

----------------------------------------------------------------------------
(* Bounds of the checked input space *)

MaxMsgs == 2
MaxLines == 3
MaxContentLen == 5
MaxKeywords == 2
MaxCalls == 3
MaxEdgeLen == 3
MaxNegative == 2
MaxThreads == 2
MaxRate == 2
MaxChecks == 4
MaxCids == 2

----------------------------------------------------------------------------
(* Python helpers *)

Min(a, b) == IF a < b THEN a ELSE b
Max(a, b) == IF a > b THEN a ELSE b

\* str.splitlines() boundaries among the characters of the model
LineBreaks == {"\n", "\r", "\f"}

\* str.isspace() characters among the characters of the model
Whitespace == {" ", "\t", "\n", "\r", "\f"}

Digit == <<"0", "1", "2", "3", "4", "5", "6", "7", "8", "9">>

\* str(n) for an int n
RECURSIVE Decimal(_)
Decimal(n) ==
    IF n < 0 THEN <<"-">> \o Decimal(0 - n)
    ELSE IF n < 10 THEN <<Digit[n + 1]>>
    ELSE Decimal(n \div 10) \o <<Digit[(n % 10) + 1]>>

\* s.splitlines(): "\r\n" is one boundary; no empty last line after a final boundary
RECURSIVE SplitFrom(_, _, _)
SplitFrom(s, i, cur) ==
    IF i > Len(s) THEN (IF cur = <<>> THEN <<>> ELSE <<cur>>)
    ELSE IF s[i] = "\r" /\ i < Len(s) /\ s[i + 1] = "\n"
         THEN <<cur>> \o SplitFrom(s, i + 2, <<>>)
    ELSE IF s[i] \in LineBreaks THEN <<cur>> \o SplitFrom(s, i + 1, <<>>)
    ELSE SplitFrom(s, i + 1, Append(cur, s[i]))

splitlines(s) == SplitFrom(s, 1, <<>>)

RECURSIVE LStrip(_)
LStrip(s) == IF s # <<>> /\ Head(s) \in Whitespace THEN LStrip(Tail(s)) ELSE s

RECURSIVE RStrip(_)
RStrip(s) ==
    IF s # <<>> /\ s[Len(s)] \in Whitespace THEN RStrip(SubSeq(s, 1, Len(s) - 1)) ELSE s

\* s.strip()
strip(s) == RStrip(LStrip(s))

\* s[:n] for a list s and an int n (a negative n counts from the end)
SliceTo(s, n) ==
    IF n >= 0 THEN SubSeq(s, 1, Min(n, Len(s))) ELSE SubSeq(s, 1, Max(0, Len(s) + n))

\* m.get(key, "")
Get(m, key) == IF key \in DOMAIN m THEN m[key] ELSE <<>>

----------------------------------------------------------------------------
(* prepare_keyword_split_csv, statement by statement *)

\* A value that is no text: None is <<"<None>">>, an int is <<"<int>">> and its digits.
\* No text starts with one of these two atoms.
NoneValue == <<"<None>">>
IntValue(n) == <<"<int>">> \o Decimal(n)
IsText(v) == v = <<>> \/ Head(v) \notin {"<None>", "<int>"}

\* str(content): a text is itself, None is "None", an int its digits
Str(content) ==
    IF IsText(content) THEN content
    ELSE IF content = NoneValue THEN <<"N", "o", "n", "e">>
    ELSE Tail(content)

\* mutant of IsAssistant: the role compared without regard to letter case
IsAssistantAnyCase(role) == role \in {<<"assistant">>, <<"Assistant">>}

\* line 19: role == "assistant"
IsAssistant(role) == role = <<"assistant">>

\* mutant of StripNonEmpty: the kept lines are not trimmed
RECURSIVE StripNonEmptyRaw(_)
StripNonEmptyRaw(lines) ==
    IF lines = <<>> THEN <<>>
    ELSE IF strip(Head(lines)) # <<>>
         THEN <<Head(lines)>> \o StripNonEmptyRaw(Tail(lines))
         ELSE StripNonEmptyRaw(Tail(lines))

\* line 20: [k.strip() for k in lines if k.strip()]
RECURSIVE StripNonEmpty(_)
StripNonEmpty(lines) ==
    IF lines = <<>> THEN <<>>
    ELSE IF strip(Head(lines)) # <<>>
         THEN <<strip(Head(lines))>> \o StripNonEmpty(Tail(lines))
         ELSE StripNonEmpty(Tail(lines))

\* line 20
Keywords(content) == StripNonEmpty(splitlines(Str(content)))

\* line 25: f" (...+{remaining} truncated)"
TruncationSuffix(remaining) == <<" (...+">> \o Decimal(remaining) \o <<" truncated)">>

\* mutant of Cap: one keyword too many is kept (kws[:max_keywords + 1])
CapOneMore(kws, maxk) ==
    IF Len(kws) > maxk
    THEN LET remaining == Len(kws) - maxk
             kept == SliceTo(kws, maxk + 1)
         IN  IF kept # <<>>
             THEN [kept EXCEPT ![Len(kept)] = @ \o TruncationSuffix(remaining)]
             ELSE kept
    ELSE kws

\* mutant of Cap: the annotation reports the number of lines, not of dropped lines
CapCountsAll(kws, maxk) ==
    IF Len(kws) > maxk
    THEN LET remaining == Len(kws)
             kept == SliceTo(kws, maxk)
         IN  IF kept # <<>>
             THEN [kept EXCEPT ![Len(kept)] = @ \o TruncationSuffix(remaining)]
             ELSE kept
    ELSE kws

\* lines 21-25
Cap(kws, maxk) ==
    IF Len(kws) > maxk
    THEN LET remaining == Len(kws) - maxk
             kept == SliceTo(kws, maxk)
         IN  IF kept # <<>>
             THEN [kept EXCEPT ![Len(kept)] = @ \o TruncationSuffix(remaining)]
             ELSE kept
    ELSE kws

\* mutant of RowOf: the content is stored trimmed (content.strip())
RowOfTrimmed(m, maxk) ==
    LET role == Get(m, "role")
        name == Get(m, "name")
        content == Get(m, "content")
        kws == IF IsAssistant(role) THEN Cap(Keywords(content), maxk) ELSE <<>>
    IN  [role |-> role, name |-> name, content |-> strip(content), kws |-> kws]

\* lines 16-28: the dict appended to rows for message m
RowOf(m, maxk) ==
    LET role == Get(m, "role")
        name == Get(m, "name")
        content == Get(m, "content")
        kws == IF IsAssistant(role) THEN Cap(Keywords(content), maxk) ELSE <<>>
    IN  [role |-> role, name |-> name, content |-> content, kws |-> kws]

\* mutant of UpdateMaxKw: the last row's count replaces the maximum
UpdateMaxKwLast(mk, kws) == Len(kws)

\* lines 29-30
UpdateMaxKw(mk, kws) == IF Len(kws) > mk THEN Len(kws) ELSE mk

\* mutant of Normalize: the row is put in front of rows (rows.insert(0, ...))
NormalizePrepend(st, i, maxk) ==
    LET row == RowOf(st.messages[i], maxk)
    IN  [rows |-> <<row>> \o st.rows,
         max_kw |-> UpdateMaxKw(st.max_kw, row.kws),
         messages |-> st.messages]

\* mutant of Normalize: the keywords are stored in the message itself (m["_kws"] = kws)
NormalizeInPlace(st, i, maxk) ==
    LET m == st.messages[i]
        row == RowOf(m, maxk)
    IN  [rows |-> Append(st.rows, row),
         max_kw |-> UpdateMaxKw(st.max_kw, row.kws),
         messages |-> [st.messages EXCEPT
                          ![i] = [k \in DOMAIN m \cup {"_kws"} |->
                                     IF k = "_kws" THEN row.kws ELSE m[k]]]]

\* lines 15-30: iteration i of the first loop, on the locals and the argument list
Normalize(st, i, maxk) ==
    LET row == RowOf(st.messages[i], maxk)
    IN  [rows |-> Append(st.rows, row),
         max_kw |-> UpdateMaxKw(st.max_kw, row.kws),
         messages |-> st.messages]

\* line 36: f"keyword_{i+1}" for i = j - 1
KeywordColumn(j) == <<"keyword_">> \o Decimal(j)

\* mutant of KeywordCell: the bound is one short (i < len(r["_kws"]) - 1)
KeywordCellShort(r, j) == IF j - 1 < Len(r.kws) - 1 THEN r.kws[j] ELSE <<>>

\* line 36: r["_kws"][i] if i < len(r["_kws"]) else "", for i = j - 1
KeywordCell(r, j) == IF j - 1 < Len(r.kws) THEN r.kws[j] ELSE <<>>

\* lines 34-36: the dict built for row r, as its <<key, value>> pairs in insertion order
OutOf(r, mk) ==
    << <<(<<"role">>), r.role>>, <<(<<"name">>), r.name>>, <<(<<"content">>), r.content>> >>
    \o [j \in 1..mk |-> <<KeywordColumn(j), KeywordCell(r, j)>>]

\* line 39: pd.DataFrame(list of dicts): the columns are the keys in order of first
\* appearance, a value a dict lacks is missing (written as the empty field)
RECURSIVE FirstSeen(_, _)
FirstSeen(keys, seen) ==
    IF keys = <<>> THEN <<>>
    ELSE IF Head(keys) \in seen THEN FirstSeen(Tail(keys), seen)
    ELSE <<Head(keys)>> \o FirstSeen(Tail(keys), seen \cup {Head(keys)})

RECURSIVE AllKeys(_)
AllKeys(dicts) ==
    IF dicts = <<>> THEN <<>>
    ELSE [p \in 1..Len(Head(dicts)) |-> Head(dicts)[p][1]] \o AllKeys(Tail(dicts))

Lookup(d, key) ==
    IF \E p \in 1..Len(d) : d[p][1] = key
    THEN d[CHOOSE p \in 1..Len(d) : d[p][1] = key][2]
    ELSE <<>>

DataFrame(dicts) ==
    LET cols == FirstSeen(AllKeys(dicts), {})
    IN  [columns |-> cols,
         data |-> [n \in 1..Len(dicts) |-> [c \in 1..Len(cols) |-> Lookup(dicts[n], cols[c])]]]

\* csv.writer, QUOTE_MINIMAL: a field holding the delimiter, the quote character or a
\* character of the line terminator "\n" is quoted, quotes inside it doubled; a bare
\* "\r" forces quoting only where the interpreter's csv.writer does so
CsvSpecial(qcr) == {",", "\"", "\n"} \cup (IF qcr THEN {"\r"} ELSE {})

\* the text pandas writes for a cell: a missing value (None) as the empty field, an
\* int as its digits
CellText(v) ==
    IF IsText(v) THEN v ELSE IF v = NoneValue THEN <<>> ELSE Tail(v)

RECURSIVE DoubleQuotes(_)
DoubleQuotes(f) ==
    IF f = <<>> THEN <<>>
    ELSE (IF Head(f) = "\"" THEN <<"\"", "\"">> ELSE <<Head(f)>>) \o DoubleQuotes(Tail(f))

CsvField(f, qcr) ==
    IF \E p \in 1..Len(f) : f[p] \in CsvSpecial(qcr)
    THEN <<"\"">> \o DoubleQuotes(f) \o <<"\"">>
    ELSE f

RECURSIVE CsvJoin(_, _)
CsvJoin(fields, qcr) ==
    IF fields = <<>> THEN <<>>
    ELSE IF Len(fields) = 1 THEN CsvField(CellText(fields[1]), qcr)
    ELSE CsvField(CellText(Head(fields)), qcr) \o <<",">> \o CsvJoin(Tail(fields), qcr)

\* one written row; a row of a single empty field is written as ""
CsvLine(fields, qcr) ==
    (IF Len(fields) = 1 /\ CellText(fields[1]) = <<>>
     THEN <<"\"", "\"">>
     ELSE CsvJoin(fields, qcr))
    \o <<"\n">>

RECURSIVE CsvLines(_, _)
CsvLines(data, qcr) ==
    IF data = <<>> THEN <<>> ELSE CsvLine(Head(data), qcr) \o CsvLines(Tail(data), qcr)

\* lines 40-41: df_out.to_csv(buf, index=False): the header row, then the data rows
to_csv(df, qcr) == CsvLine(df.columns, qcr) \o CsvLines(df.data, qcr)

\* Characters outside ASCII in the model: U+00E9 (two bytes in UTF-8) and the lone
\* surrogate U+D800, which a Python str can hold and UTF-8 cannot encode
Surrogates == {"U+D800"}
Utf8Char(c) == IF c = "U+00E9" THEN <<"<C3>", "<A9>">> ELSE <<c>>

RECURSIVE Utf8(_)
Utf8(text) == IF text = <<>> THEN <<>> ELSE Utf8Char(Head(text)) \o Utf8(Tail(text))

\* mutant of EncodeUtf8Sig: encode("utf-8"), without the byte-order mark
EncodeUtf8NoSig(text) == Utf8(text)

\* line 42: encode("utf-8-sig"): the byte-order mark, then the UTF-8 bytes of the text
BOM == <<"<EF>", "<BB>", "<BF>">>
EncodeUtf8Sig(text) == BOM \o Utf8(text)

\* line 42: the exception encode raises ("" when it raises none)
EncodeError(text) ==
    IF \E p \in 1..Len(text) : text[p] \in Surrogates THEN "UnicodeEncodeError" ELSE ""

----------------------------------------------------------------------------
(* the three phases of a call on the locals *)

\* mutant of Locals: rows and max_kw outlive the call (module-level or default-argument
\* objects) instead of being created by it
LocalsKept(ms) == [rows |-> rows, max_kw |-> max_kw, messages |-> ms]

\* lines 13-14 and the binding of the arguments
Locals(ms) == [rows |-> <<>>, max_kw |-> 0, messages |-> ms]

\* lines 15-30: iterations i..len(messages) of the first loop
RECURSIVE FirstLoop(_, _, _)
FirstLoop(st, i, maxk) ==
    IF i > Len(st.messages) THEN st ELSE FirstLoop(Normalize(st, i, maxk), i + 1, maxk)

\* lines 32-37
SecondLoop(rs, mk) == [n \in 1..Len(rs) |-> OutOf(rs[n], mk)]

\* lines 39-42: what the call returns
Encode(outs, qcr) == EncodeUtf8Sig(to_csv(DataFrame(outs), qcr))

\* lines 39-42: the exception that ends the call instead ("" when it returns)
Raised(outs, qcr) == EncodeError(to_csv(DataFrame(outs), qcr))

----------------------------------------------------------------------------
(* the arguments the caller passes *)

\* a field of a record: <<>> when the key is absent, <<text>> when it is present
RoleOpts == {<<>>, <<(<<"assistant">>)>>, <<(<<"user">>)>>, <<(<<"Assistant">>)>>}
NameOpts == {<<>>, <<(<<"Bot">>)>>}

MkRecord(ro, no, co) ==
    [k \in {key \in {"role", "name", "content"} :
                \/ key = "role" /\ ro # <<>>
                \/ key = "name" /\ no # <<>>
                \/ key = "content" /\ co # <<>>}
       |-> IF k = "role" THEN ro[1] ELSE IF k = "name" THEN no[1] ELSE co[1]]

Alphabet == {"a", " ", "\n"}
Texts(n) == UNION {[1..k -> Alphabet] : k \in 0..n}

\* "".join(f"k{i}\n" for i in 1..n), the content test_utils.py builds
RECURSIVE TestContent(_)
TestContent(n) ==
    IF n = 0 THEN <<>> ELSE TestContent(n - 1) \o <<"k">> \o Decimal(n) \o <<"\n">>

\* records with any content of at most MaxContentLen characters, or without content
RichRecords ==
    {MkRecord(ro, no, co) : ro \in RoleOpts, no \in NameOpts,
                            co \in {<<>>} \cup {<<c>> : c \in Texts(MaxContentLen)}}

\* records with 0..MaxLines keyword lines
PlainRecords ==
    {MkRecord(ro, no, <<TestContent(n)>>) :
         ro \in RoleOpts \ {<<(<<"Assistant">>)>>}, no \in NameOpts, n \in 0..MaxLines}

Lists(S, n) == UNION {[1..k -> S] : k \in 0..n}

\* one record of any content, or up to MaxMsgs records of keyword lines
Inputs == Lists(RichRecords, 1) \cup Lists(PlainRecords, MaxMsgs)

----------------------------------------------------------------------------
(* one call, run to completion *)

Init ==
    /\ messages \in Inputs
    /\ max_keywords \in 1..MaxKeywords
    /\ given = messages
    /\ pc = "ready"
    /\ idx = 0
    /\ rows = <<>>
    /\ max_kw = 0
    /\ out_rows = <<>>
    /\ df_out = [columns |-> <<>>, data |-> <<>>]
    /\ result = <<>>
    /\ calls = 0
    /\ returned = {}
    /\ error = ""
    \* no content of Inputs holds a "\r": both kinds of interpreter write the same bytes
    /\ quote_cr = FALSE
    /\ NoThreads /\ NoChecks /\ NoLog /\ NoApp

\* lines 5-42
Call ==
    /\ pc = "ready"
    /\ LET st == FirstLoop(Locals(messages), 1, max_keywords)
           outs == SecondLoop(st.rows, st.max_kw)
       IN  /\ messages' = st.messages
           /\ rows' = st.rows
           /\ max_kw' = st.max_kw
           /\ out_rows' = outs
           /\ df_out' = DataFrame(outs)
           /\ error' = Raised(outs, quote_cr)
           /\ result' = IF Raised(outs, quote_cr) = "" THEN Encode(outs, quote_cr) ELSE <<>>
           /\ idx' = Len(outs)
    /\ pc' = "done"
    /\ calls' = calls + 1
    /\ UNCHANGED <<max_keywords, given, returned, quote_cr>>
    /\ UNCHANGED <<threadVars, rateVars, logVars, appVars>>

Next == Call

Spec == Init /\ [][Next]_vars

----------------------------------------------------------------------------
(* one call on a record whose content holds CSV delimiters, quotes, line breaks,
   characters outside ASCII, or is no text at all *)

EdgeAlphabet == {"a", ",", "\"", "\r", "\n", "U+00E9", "U+D800"}
EdgeTexts == UNION {[1..k -> EdgeAlphabet] : k \in 0..MaxEdgeLen}

\* content: absent, a text, None or the int 42
EdgeRecords ==
    {MkRecord(ro, no, co) :
         ro \in RoleOpts \ {<<(<<"Assistant">>)>>}, no \in NameOpts,
         co \in {<<>>, <<NoneValue>>, <<IntValue(42)>>} \cup {<<c>> : c \in EdgeTexts}}

InitEdge ==
    /\ messages \in Lists(EdgeRecords, 1)
    /\ max_keywords \in 1..MaxKeywords
    /\ given = messages
    /\ pc = "ready"
    /\ idx = 0
    /\ rows = <<>>
    /\ max_kw = 0
    /\ out_rows = <<>>
    /\ df_out = [columns |-> <<>>, data |-> <<>>]
    /\ result = <<>>
    /\ calls = 0
    /\ returned = {}
    /\ error = ""
    /\ quote_cr \in BOOLEAN
    /\ NoThreads /\ NoChecks /\ NoLog /\ NoApp

SpecEdge == InitEdge /\ [][Next]_vars

----------------------------------------------------------------------------
(* a caller that makes up to MaxCalls calls, each call taken statement by statement *)

\* records a caller of several calls passes: a role, a name, 0..MaxLines keyword lines
CallRecords ==
    {MkRecord(ro, <<(<<"Bot">>)>>, <<TestContent(n)>>) :
         ro \in RoleOpts \ {<<(<<"Assistant">>)>>}, n \in 0..MaxLines}

CallInputs == Lists(CallRecords, 1)

InitCalls ==
    /\ messages \in CallInputs
    /\ max_keywords \in 1..MaxKeywords
    /\ given = messages
    /\ pc = "ready"
    /\ idx = 0
    /\ rows = <<>>
    /\ max_kw = 0
    /\ out_rows = <<>>
    /\ df_out = [columns |-> <<>>, data |-> <<>>]
    /\ result = <<>>
    /\ calls = 0
    /\ returned = {}
    /\ error = ""
    /\ quote_cr \in BOOLEAN
    /\ NoThreads /\ NoChecks /\ NoLog /\ NoApp

\* lines 13-14
Enter ==
    /\ pc = "ready"
    /\ LET st == Locals(messages)
       IN  /\ rows' = st.rows
           /\ max_kw' = st.max_kw
           /\ messages' = st.messages
    /\ idx' = 0
    /\ pc' = "normalize"
    /\ UNCHANGED <<max_keywords, out_rows, df_out, result, given, calls, returned, error,
                   quote_cr>>
    /\ UNCHANGED <<threadVars, rateVars, logVars, appVars>>

\* lines 15-30, one iteration
NormalizeStep ==
    /\ pc = "normalize"
    /\ idx < Len(messages)
    /\ LET st == Normalize([rows |-> rows, max_kw |-> max_kw, messages |-> messages],
                           idx + 1, max_keywords)
       IN  /\ rows' = st.rows
           /\ max_kw' = st.max_kw
           /\ messages' = st.messages
    /\ idx' = idx + 1
    /\ UNCHANGED <<max_keywords, pc, out_rows, df_out, result, given, calls, returned, error,
                   quote_cr>>
    /\ UNCHANGED <<threadVars, rateVars, logVars, appVars>>

\* line 32, after the first loop has ended
StartAssemble ==
    /\ pc = "normalize"
    /\ idx = Len(messages)
    /\ out_rows' = <<>>
    /\ idx' = 0
    /\ pc' = "assemble"
    /\ UNCHANGED <<messages, max_keywords, rows, max_kw, df_out, result, given, calls,
                   returned, error, quote_cr>>
    /\ UNCHANGED <<threadVars, rateVars, logVars, appVars>>

\* lines 33-37, one iteration
AssembleStep ==
    /\ pc = "assemble"
    /\ idx < Len(rows)
    /\ out_rows' = Append(out_rows, OutOf(rows[idx + 1], max_kw))
    /\ idx' = idx + 1
    /\ UNCHANGED <<messages, max_keywords, pc, rows, max_kw, df_out, result, given, calls,
                   returned, error, quote_cr>>
    /\ UNCHANGED <<threadVars, rateVars, logVars, appVars>>

\* lines 39-42, after the second loop has ended; the caller notes what it got
Return ==
    /\ pc = "assemble"
    /\ idx = Len(rows)
    /\ df_out' = DataFrame(out_rows)
    /\ error' = Raised(out_rows, quote_cr)
    /\ result' = IF Raised(out_rows, quote_cr) = "" THEN Encode(out_rows, quote_cr) ELSE <<>>
    /\ pc' = "done"
    /\ calls' = calls + 1
    /\ returned' = returned \cup {<<given, max_keywords, result'>>}
    /\ UNCHANGED <<messages, max_keywords, idx, rows, max_kw, out_rows, given, quote_cr>>
    /\ UNCHANGED <<threadVars, rateVars, logVars, appVars>>

\* the caller's next call: after the first call any arguments, after that the
\* arguments of an earlier call again
NextCall ==
    /\ pc = "done"
    /\ calls < MaxCalls
    /\ \E ms \in CallInputs, mk \in 1..MaxKeywords :
          /\ calls > 1 => \E e \in returned : e[1] = ms /\ e[2] = mk
          /\ messages' = ms
          /\ given' = ms
          /\ max_keywords' = mk
    /\ pc' = "ready"
    /\ UNCHANGED <<idx, rows, max_kw, out_rows, df_out, result, calls, returned, error,
                   quote_cr>>
    /\ UNCHANGED <<threadVars, rateVars, logVars, appVars>>

NextCalls ==
    \/ Enter
    \/ NormalizeStep
    \/ StartAssemble
    \/ AssembleStep
    \/ Return
    \/ NextCall

SpecCalls == InitCalls /\ [][NextCalls]_vars

----------------------------------------------------------------------------
(* What the claims speak of, stated without the program's operators *)

Done == pc = "done"

Records == 1..Len(given)

RoleIn(n) == Get(given[n], "role")
NameIn(n) == Get(given[n], "name")
ContentIn(n) == Get(given[n], "content")
IsReply(n) == RoleIn(n) = <<"assistant">>

\* positions of the characters of s that are not whitespace
NonWs(s) == {p \in 1..Len(s) : s[p] \notin Whitespace}

\* positions p <= q lie on one line: no line boundary between them
SameLine(s, p, q) == \A b \in p..q : s[b] \notin LineBreaks

\* the first and the last non-whitespace position of each line that has one
LineStarts(s) == {p \in NonWs(s) : \A q \in NonWs(s) : q < p => ~SameLine(s, q, p)}
LineEnd(s, p) ==
    CHOOSE q \in NonWs(s) :
        /\ q >= p
        /\ SameLine(s, p, q)
        /\ \A r \in NonWs(s) : r > q => ~SameLine(s, p, r)

Nth(S, k) == CHOOSE p \in S : Cardinality({q \in S : q < p}) = k - 1

\* the non-empty trimmed lines of s, top to bottom
TrimmedLines(s) ==
    [k \in 1..Cardinality(LineStarts(s)) |->
        SubSeq(s, Nth(LineStarts(s), k), LineEnd(s, Nth(LineStarts(s), k)))]

\* L of record n
LineCount(n) == Cardinality(LineStarts(ContentIn(n)))

\* the output table: its header, and the cell of data row n under a column
Header == df_out.columns
HasColumn(col) == \E c \in 1..Len(Header) : Header[c] = col
CellUnder(n, col) == df_out.data[n][CHOOSE c \in 1..Len(Header) : Header[c] = col]
KeywordName(i) == <<"keyword_">> \o Decimal(i)
KeywordColumns == {c \in 1..Len(Header) : Header[c] # <<>> /\ Header[c][1] = "keyword_"}

\* W as the claims define it: the largest min(L, max_keywords) of an assistant record
CappedCount(n) == IF IsReply(n) THEN Min(LineCount(n), max_keywords) ELSE 0
ExpectedWidth == IF Records = {} THEN 0
                 ELSE CHOOSE w \in {CappedCount(n) : n \in Records} :
                          \A n \in Records : CappedCount(n) <= w

RECURSIVE KeywordHeader(_)
KeywordHeader(w) ==
    IF w = 0 THEN <<>> ELSE KeywordHeader(w - 1) \o <<",", "keyword_">> \o Decimal(w)

IsPrefix(pre, s) == Len(pre) <= Len(s) /\ SubSeq(s, 1, Len(pre)) = pre

----------------------------------------------------------------------------
(* Claims *)

\* C1: one data row per input record, in input order; data row i carries the role,
\* name and content of input record i.
C1_RowPerRecord ==
    Done =>
        /\ Len(df_out.data) = Len(given)
        /\ \A n \in Records :
              /\ HasColumn(<<"role">>) /\ CellUnder(n, <<"role">>) = RoleIn(n)
              /\ HasColumn(<<"name">>) /\ CellUnder(n, <<"name">>) = NameIn(n)
              /\ HasColumn(<<"content">>) /\ CellUnder(n, <<"content">>) = ContentIn(n)

C1_Witness ==
    /\ Done
    /\ Len(given) = 2
    /\ given[1] # given[2]
    /\ IsReply(2) /\ ~IsReply(1)

\* C2: after capping, every row's keyword list has at most max_keywords entries, and
\* no output row has more than max_keywords non-empty keyword cells.
C2_Capped ==
    Done =>
        \A n \in Records :
            /\ Len(rows[n].kws) <= max_keywords
            /\ Cardinality({c \in KeywordColumns : df_out.data[n][c] # <<>>}) <= max_keywords

C2_Witness == Done /\ \E n \in Records : IsReply(n) /\ LineCount(n) > max_keywords

\* C3: an assistant record with L > max_keywords lines: keyword_i is line i unchanged
\* for i < max_keywords, keyword_{max_keywords} is line max_keywords followed by
\* " (...+N truncated)" with N = L - max_keywords, and no further keyword is kept.
C3_Truncation ==
    Done =>
        \A n \in Records :
            (IsReply(n) /\ LineCount(n) > max_keywords) =>
                LET lines == TrimmedLines(ContentIn(n))
                IN  /\ \A i \in 1..max_keywords : HasColumn(KeywordName(i))
                    /\ \A i \in 1..(max_keywords - 1) : CellUnder(n, KeywordName(i)) = lines[i]
                    /\ CellUnder(n, KeywordName(max_keywords)) =
                           lines[max_keywords] \o <<" (...+">>
                               \o Decimal(LineCount(n) - max_keywords) \o <<" truncated)">>
                    /\ \A c \in KeywordColumns :
                           Header[c] \notin {KeywordName(i) : i \in 1..max_keywords}
                               => df_out.data[n][c] = <<>>

C3_Witness ==
    Done /\ max_keywords = 2 /\ \E n \in Records : IsReply(n) /\ LineCount(n) = 3

\* C4: a record whose role is not exactly "assistant" has no keywords: its keyword
\* list is empty and every keyword cell of its row is the empty string.
C4_NonReplyEmpty ==
    Done =>
        \A n \in Records :
            ~IsReply(n) =>
                /\ rows[n].kws = <<>>
                /\ \A c \in KeywordColumns : df_out.data[n][c] = <<>>

C4_Witness ==
    /\ Done
    /\ KeywordColumns # {}
    /\ \E n \in Records : RoleIn(n) = <<"user">> /\ LineCount(n) >= 2

C4_WitnessCase ==
    Done /\ \E n \in Records : RoleIn(n) = <<"Assistant">> /\ LineCount(n) >= 2

\* C5: with an empty message list the header row is exactly role,name,content, with
\* no keyword columns and no data rows.
C5_EmptyList ==
    (Done /\ given = <<>>) =>
        /\ Header = << <<"role">>, <<"name">>, <<"content">> >>
        /\ df_out.data = <<>>
        /\ result = BOM \o <<"role", ",", "name", ",", "content", "\n">>

\* C6: for a non-empty list the header row is role, name, content, keyword_1, ...,
\* keyword_W in that order and nothing else, W the largest capped keyword count.
C6_Header ==
    (Done /\ given # <<>>) =>
        /\ Header = << <<"role">>, <<"name">>, <<"content">> >>
                        \o [i \in 1..ExpectedWidth |-> KeywordName(i)]
        /\ IsPrefix(BOM \o <<"role", ",", "name", ",", "content">>
                        \o KeywordHeader(ExpectedWidth) \o <<"\n">>, result)

C6_Witness ==
    /\ Done
    /\ Len(given) = 2
    /\ CappedCount(1) = 2 /\ CappedCount(2) = 1

C6_WitnessNoKeywords == Done /\ given # <<>> /\ ExpectedWidth = 0 /\ Len(Header) = 3

\* C7: the table is rectangular: every data row has W keyword cells; keyword_i of a
\* row is the i-th entry of its capped keyword list, and the empty string beyond it.
C7_Rectangular ==
    Done =>
        \A n \in Records :
            /\ Len(df_out.data[n]) = Len(Header)
            /\ Len(rows[n].kws) <= Cardinality(KeywordColumns)
            /\ \A i \in 1..Cardinality(KeywordColumns) :
                  /\ HasColumn(KeywordName(i))
                  /\ CellUnder(n, KeywordName(i)) =
                         (IF i <= Len(rows[n].kws) THEN rows[n].kws[i] ELSE <<>>)

C7_Witness ==
    /\ Done
    /\ \E n \in Records :
          /\ Len(rows[n].kws) > 0
          /\ Len(rows[n].kws) < Cardinality(KeywordColumns)

\* C8: an assistant record with L <= max_keywords lines: its keywords are exactly its
\* non-empty lines, trimmed, top to bottom, with no truncation suffix.
C8_Lines ==
    Done =>
        \A n \in Records :
            (IsReply(n) /\ LineCount(n) <= max_keywords) =>
                /\ rows[n].kws = TrimmedLines(ContentIn(n))
                /\ \A i \in 1..LineCount(n) :
                      /\ HasColumn(KeywordName(i))
                      /\ CellUnder(n, KeywordName(i)) = TrimmedLines(ContentIn(n))[i]

\* the boundary L = max_keywords = 2, with a blank line dropped and a blank trimmed
C8_Witness ==
    /\ Done
    /\ max_keywords = 2
    /\ \E n \in Records :
          /\ IsReply(n)
          /\ LineCount(n) = 2
          /\ Len(splitlines(ContentIn(n))) > 2
          /\ ContentIn(n)[1] = " "

\* C9: the function keeps no state between calls: two calls with the same messages
\* and max_keywords return the same bytes, whatever calls were made between them.
C9_SameArgumentsSameBytes ==
    \A e1 \in returned, e2 \in returned :
        (e1[1] = e2[1] /\ e1[2] = e2[2]) => e1[3] = e2[3]

\* a call has been repeated after a call with other arguments that built a wider table
C9_Witness ==
    /\ Done
    /\ calls = 3
    /\ Cardinality(returned) = 2
    /\ \E e \in returned : e[1] = given /\ e[2] = max_keywords
    /\ \E e \in returned : Len(e[3]) > Len(result)

\* C10: the call leaves its argument as the caller passed it: same length, same
\* order, every record with the same keys and values.
C10_InputUnchanged == Done => messages = given

C10_Witness ==
    Done /\ \E n \in Records : IsReply(n) /\ LineCount(n) > max_keywords

\* C11: the role, name and content cells of every row are the record's values as
\* given (the content neither trimmed nor split nor annotated, also when the row's
\* keywords were truncated); a key the record lacks gives the empty string.
C11_Verbatim ==
    Done =>
        \A n \in Records :
            \A key \in {"role", "name", "content"} :
                /\ HasColumn(<<key>>)
                /\ CellUnder(n, <<key>>) =
                       (IF key \in DOMAIN given[n] THEN given[n][key] ELSE <<>>)

\* a truncated row whose content starts with a blank, in a record without a name
C11_Witness ==
    /\ Done
    /\ \E n \in Records :
          /\ IsReply(n)
          /\ LineCount(n) > max_keywords
          /\ ContentIn(n)[1] = " "
          /\ "name" \notin DOMAIN given[n]

----------------------------------------------------------------------------
(* one call with a ceiling that is not positive *)

InitCeiling ==
    /\ messages \in Lists(CallRecords, MaxMsgs)
    /\ max_keywords \in (0 - MaxNegative)..0
    /\ given = messages
    /\ pc = "ready"
    /\ idx = 0
    /\ rows = <<>>
    /\ max_kw = 0
    /\ out_rows = <<>>
    /\ df_out = [columns |-> <<>>, data |-> <<>>]
    /\ result = <<>>
    /\ calls = 0
    /\ returned = {}
    /\ error = ""
    /\ quote_cr \in BOOLEAN
    /\ NoThreads /\ NoChecks /\ NoLog /\ NoApp

SpecCeiling == InitCeiling /\ [][Next]_vars

----------------------------------------------------------------------------
(* several threads, each making one call on its own arguments; a step of a thread is one
   statement or one loop iteration, and the steps of the threads interleave freely *)

Threads == 1..MaxThreads

\* the records a thread passes: an assistant reply of 1..MaxLines keyword lines
ThreadRecords ==
    {MkRecord(<<(<<"assistant">>)>>, <<(<<"Bot">>)>>, <<TestContent(n)>>) : n \in 1..MaxLines}

\* the ceiling thread t passes
ThreadCeiling(t) == 1 + (t % MaxKeywords)

\* mutant of FrameOf: rows and max_kw are module-level names, one copy for all threads
FrameShared(t) == 1

\* lines 13-14: rows and max_kw are locals, created in the frame of the call
FrameOf(t) == t

\* the locals and the argument list as thread t sees them
Seen(t) ==
    [rows |-> frames[FrameOf(t)].rows, max_kw |-> frames[FrameOf(t)].max_kw,
     messages |-> threads[t].messages]

\* another thread is inside its call
Overlaps(t) == \E u \in Threads \ {t} : threads[u].pc \in {"normalize", "assemble"}

\* lines 5-42 run without interruption: what a call on (ms, mk) returns alone
Alone(ms, mk, qcr) ==
    LET st == FirstLoop(Locals(ms), 1, mk)
    IN  Encode(SecondLoop(st.rows, st.max_kw), qcr)

InitThreads ==
    /\ NoCall /\ NoChecks /\ NoLog /\ NoApp
    /\ \E arg \in [Threads -> ThreadRecords] :
          threads = [t \in Threads |->
                        [messages |-> <<arg[t]>>, given |-> <<arg[t]>>,
                         max_keywords |-> ThreadCeiling(t), pc |-> "ready", idx |-> 0,
                         out_rows |-> <<>>, result |-> <<>>, error |-> "",
                         overlapped |-> FALSE]]
    /\ frames = [t \in Threads |-> [rows |-> <<>>, max_kw |-> 0]]

\* lines 13-14
TEnter(t) ==
    /\ threads[t].pc = "ready"
    /\ LET st == Locals(threads[t].messages)
       IN  /\ frames' = [frames EXCEPT ![FrameOf(t)] = [rows |-> st.rows, max_kw |-> st.max_kw]]
           /\ threads' = [threads EXCEPT ![t].messages = st.messages,
                                         ![t].idx = 0,
                                         ![t].pc = "normalize",
                                         ![t].overlapped = @ \/ Overlaps(t)]
    /\ UNCHANGED <<utilsVars, rateVars, logVars, appVars>>

\* lines 15-30, one iteration
TNormalizeStep(t) ==
    /\ threads[t].pc = "normalize"
    /\ threads[t].idx < Len(threads[t].messages)
    /\ LET st == Normalize(Seen(t), threads[t].idx + 1, threads[t].max_keywords)
       IN  /\ frames' = [frames EXCEPT ![FrameOf(t)] = [rows |-> st.rows, max_kw |-> st.max_kw]]
           /\ threads' = [threads EXCEPT ![t].messages = st.messages,
                                         ![t].idx = @ + 1,
                                         ![t].overlapped = @ \/ Overlaps(t)]
    /\ UNCHANGED <<utilsVars, rateVars, logVars, appVars>>

\* line 32, after the first loop has ended
TStartAssemble(t) ==
    /\ threads[t].pc = "normalize"
    /\ threads[t].idx = Len(threads[t].messages)
    /\ threads' = [threads EXCEPT ![t].out_rows = <<>>,
                                  ![t].idx = 0,
                                  ![t].pc = "assemble",
                                  ![t].overlapped = @ \/ Overlaps(t)]
    /\ UNCHANGED <<frames, utilsVars, rateVars, logVars, appVars>>

\* lines 33-37, one iteration
TAssembleStep(t) ==
    /\ threads[t].pc = "assemble"
    /\ threads[t].idx < Len(Seen(t).rows)
    /\ threads' = [threads EXCEPT ![t].out_rows =
                                      Append(@, OutOf(Seen(t).rows[threads[t].idx + 1],
                                                      Seen(t).max_kw)),
                                  ![t].idx = @ + 1,
                                  ![t].overlapped = @ \/ Overlaps(t)]
    /\ UNCHANGED <<frames, utilsVars, rateVars, logVars, appVars>>

\* lines 39-42, after the second loop has ended
TReturn(t) ==
    /\ threads[t].pc = "assemble"
    /\ threads[t].idx = Len(Seen(t).rows)
    /\ threads' = [threads EXCEPT ![t].error = Raised(threads[t].out_rows, quote_cr),
                                  ![t].result =
                                      IF Raised(threads[t].out_rows, quote_cr) = ""
                                      THEN Encode(threads[t].out_rows, quote_cr) ELSE <<>>,
                                  ![t].pc = "done",
                                  ![t].overlapped = @ \/ Overlaps(t)]
    /\ UNCHANGED <<frames, utilsVars, rateVars, logVars, appVars>>

NextThreads ==
    \E t \in Threads :
        \/ TEnter(t)
        \/ TNormalizeStep(t)
        \/ TStartAssemble(t)
        \/ TAssembleStep(t)
        \/ TReturn(t)

SpecThreads == InitThreads /\ [][NextThreads]_vars

----------------------------------------------------------------------------
(* check_rate_limit (src/app.py lines 30-54): a session whose calls come at
   non-decreasing times, for either of two API keys *)

\* line 36: one_minute_ago = current_time - 60
Window == 60

ApiKeys == {"key-a", "key-b"}

\* seconds between one call and the next: none, just under, exactly and just over a minute
Advances == {0, 59, 60, 61}

\* lines 39-40 and the read of line 44: the list of a key, empty when the key is new
RequestsOf(counts, api_key) ==
    IF api_key \in DOMAIN counts THEN counts[api_key] ELSE <<>>

\* lines 43-46: the requests younger than a minute
IsRecent(req_time, one_minute_ago) == req_time > one_minute_ago
Prune(list, now) ==
    LET one_minute_ago == now - Window
        Keep(req_time) == IsRecent(req_time, one_minute_ago)
    IN  SelectSeq(list, Keep)

\* mutant of Limited: the test is len(...) > max_requests_per_minute
LimitedAbove(list, maxr) == Len(list) > maxr

\* line 49
Limited(list, maxr) == Len(list) >= maxr

\* mutant of Rejected: the request is recorded before the limit is tested
RejectedRecorded(list, now) == Append(list, now)

\* lines 49-50: a rejected call returns without touching the pruned list
Rejected(list, now) == list

\* lines 53-54
Accepted(list, now) == Append(list, now)

InitRate ==
    /\ NoCall /\ NoThreads /\ NoLog /\ NoApp
    /\ request_count = <<>>
    /\ current_time = 0
    /\ max_requests_per_minute \in 1..MaxRate
    /\ checked = <<>>

\* lines 30-54: one call, at a time not before the last one
check_rate_limit ==
    /\ Len(checked) < MaxChecks
    /\ \E api_key \in ApiKeys, d \in Advances :
          LET now == current_time + d
              before == RequestsOf(request_count, api_key)
              pruned == Prune(before, now)
              ok == ~Limited(pruned, max_requests_per_minute)
              after == IF ok THEN Accepted(pruned, now) ELSE Rejected(pruned, now)
          IN  /\ current_time' = now
              /\ request_count' =
                     [k \in DOMAIN request_count \cup {api_key} |->
                         IF k = api_key THEN after ELSE request_count[k]]
              /\ checked' = Append(checked, [api_key |-> api_key, time |-> now, ok |-> ok,
                                             before |-> before, after |-> after])
    /\ UNCHANGED <<max_requests_per_minute, utilsVars, threadVars, logVars, appVars>>

NextRate == check_rate_limit

SpecRate == InitRate /\ [][NextRate]_vars

----------------------------------------------------------------------------
(* save_log (src/app.py lines 633-662): one invocation *)

\* line 646: for i in range(5)
Attempts == 5

\* what one append_row call does: it returns, or raises an APIError whose response
\* carries a status code (0: the error carries no response, the code read is None),
\* or raises another exception
StatusCodes == {429, 500, 503, 400, 0}
Outcomes ==
    {[exc |-> "", code |-> 0]}
        \cup {[exc |-> "APIError", code |-> c] : c \in StatusCodes}
        \cup {[exc |-> "ConnectionError", code |-> 0]}

\* what _open_sheet does (line 642): it returns the worksheet or raises
OpenOutcomes == {"", "SpreadsheetNotFound"}

\* mutant of Retryable: every APIError is retried
RetryableAny(code) == TRUE

\* line 651: code in (429, 500, 503)
Retryable(code) == code \in {429, 500, 503}

\* line 652: 1.5 ** i, as the fraction 3^i / 2^i
Backoff(n) == <<3 ^ n, 2 ^ n>>

\* line 656: the classes `except Exception` catches, among those raised in the try block
Exceptions == {"APIError", "ConnectionError", "SpreadsheetNotFound", "RuntimeError"}

InitLog ==
    /\ NoCall /\ NoThreads /\ NoChecks /\ NoApp
    /\ log_pc = "start"
    /\ sheets \in BOOLEAN
    /\ debug_mode \in BOOLEAN
    /\ loop_i = 0
    /\ tried = <<>>
    /\ slept = <<>>
    /\ raised = ""
    /\ shown = <<>>
    /\ escaped = ""

\* lines 638-639
SkipCheck ==
    /\ log_pc = "start"
    /\ log_pc' = IF sheets THEN "open" ELSE "returned"
    /\ UNCHANGED <<sheets, debug_mode, loop_i, tried, slept, raised, shown, escaped>>
    /\ UNCHANGED <<utilsVars, threadVars, rateVars, appVars>>

\* lines 642-643, and the entry of the loop of line 646
OpenSheet ==
    /\ log_pc = "open"
    /\ \E o \in OpenOutcomes :
          /\ raised' = o
          /\ log_pc' = IF o = "" THEN "loop" ELSE "handler"
    /\ loop_i' = 0
    /\ UNCHANGED <<sheets, debug_mode, tried, slept, shown, escaped>>
    /\ UNCHANGED <<utilsVars, threadVars, rateVars, appVars>>

\* lines 646-654: one iteration of the loop
AppendRow ==
    /\ log_pc = "loop"
    /\ loop_i < Attempts
    /\ \E o \in Outcomes :
          /\ tried' = Append(tried, o)
          /\ IF o.exc = ""
             THEN /\ log_pc' = "returned"
                  /\ UNCHANGED <<loop_i, slept, raised>>
             ELSE IF o.exc = "APIError" /\ Retryable(o.code)
             THEN /\ slept' = Append(slept, Backoff(loop_i))
                  /\ loop_i' = loop_i + 1
                  /\ UNCHANGED <<log_pc, raised>>
             ELSE /\ raised' = o.exc
                  /\ log_pc' = "handler"
                  /\ UNCHANGED <<loop_i, slept>>
    /\ UNCHANGED <<sheets, debug_mode, shown, escaped>>
    /\ UNCHANGED <<utilsVars, threadVars, rateVars, appVars>>

\* line 655, after the loop has run out
Exhausted ==
    /\ log_pc = "loop"
    /\ loop_i = Attempts
    /\ raised' = "RuntimeError"
    /\ log_pc' = "handler"
    /\ UNCHANGED <<sheets, debug_mode, loop_i, tried, slept, shown, escaped>>
    /\ UNCHANGED <<utilsVars, threadVars, rateVars, appVars>>

\* lines 656-662
Handle ==
    /\ log_pc = "handler"
    /\ IF raised \in Exceptions
       THEN /\ shown' = IF debug_mode THEN <<"warning", "error">> ELSE <<"warning">>
            /\ UNCHANGED escaped
       ELSE /\ escaped' = raised
            /\ UNCHANGED shown
    /\ raised' = ""
    /\ log_pc' = "returned"
    /\ UNCHANGED <<sheets, debug_mode, loop_i, tried, slept>>
    /\ UNCHANGED <<utilsVars, threadVars, rateVars, appVars>>

NextLog ==
    \/ SkipCheck
    \/ OpenSheet
    \/ AppendRow
    \/ Exhausted
    \/ Handle

SpecLog == InitLog /\ [][NextLog]_vars

----------------------------------------------------------------------------
(* call_dify (src/app.py lines 1264-1285): one top-level call; the recursive call of
   lines 1276 and 1283 is the next round of the same call *)

\* line 1266
max_retries == 3

\* line 1267
base_timeout == 30

\* what one requests.post call does: it returns a response of some status, or raises
\* requests.exceptions.Timeout or another exception
PostOutcomes ==
    {[exc |-> "", status |-> st] : st \in {200, 400, 500}}
        \cup {[exc |-> e, status |-> 0] : e \in {"Timeout", "ConnectionError", "TypeError"}}

\* line 1268
TimeoutOf(n) == base_timeout + (n * 10)

\* mutant of MayRetry: the test is retry_count <= max_retries
MayRetryOnceMore(n) == n <= max_retries

\* lines 1273 and 1280
MayRetry(n) == n < max_retries

\* lines 1275 and 1282: 2 ** retry_count
DifyBackoff(n) == 2 ^ n

InitDify ==
    /\ NoCall /\ NoThreads /\ NoChecks /\ NoLog /\ NoChat
    /\ dify_pc = "call"
    /\ retry_count = 0
    /\ posts = <<>>
    /\ waited = <<>>
    /\ dify_out = [exc |-> "", status |-> 0]

\* lines 1266-1285: one activation of call_dify
Post ==
    /\ dify_pc = "call"
    /\ \E o \in PostOutcomes :
          /\ posts' = Append(posts, [timeout |-> TimeoutOf(retry_count),
                                     exc |-> o.exc, status |-> o.status])
          /\ IF o.exc = ""
             THEN /\ dify_out' = o
                  /\ dify_pc' = "returned"
                  /\ UNCHANGED <<retry_count, waited>>
             ELSE IF MayRetry(retry_count)
             THEN /\ waited' = Append(waited, DifyBackoff(retry_count))
                  /\ retry_count' = retry_count + 1
                  /\ UNCHANGED <<dify_pc, dify_out>>
             ELSE /\ dify_out' = o
                  /\ dify_pc' = "raised"
                  /\ UNCHANGED <<retry_count, waited>>
    /\ UNCHANGED <<utilsVars, threadVars, rateVars, logVars, chatVars>>

NextDify == Post

SpecDify == InitDify /\ [][NextDify]_vars

----------------------------------------------------------------------------
(* the chat session (src/app.py lines 694-745, 875-935, 1217-1442): every action of the
   user is one run of the script up to its st.rerun(), st.stop() or end; call_dify is
   taken as one step that returns a response or raises *)

\* the keys of PERSONA_API_KEYS (lines 68-72 and 76-99)
Personas == {"p1", "p2"}

\* conversation ids: "c1", "c2", ...; the empty text is no id
CidOf(n) == <<"c">> \o Decimal(n)
Cids == {CidOf(n) : n \in 1..MaxCids}

\* mutant of get_persona_cid: the recorded id is not found
get_persona_cid_lost(cids, bot) == <<>>

\* line 713: st.session_state.persona_cids.get(bot_type, "")
get_persona_cid(cids, bot) == IF bot \in DOMAIN cids THEN cids[bot] ELSE <<>>

\* lines 715-720, on the session ss = [cid, bot_type, persona_cids]
set_persona_cid(ss, bot, c) ==
    [ss EXCEPT !.persona_cids = [k \in DOMAIN ss.persona_cids \cup {bot} |->
                                    IF k = bot THEN c ELSE ss.persona_cids[k]],
               !.cid = IF bot = ss.bot_type THEN c ELSE ss.cid]

Session == [cid |-> cid, bot_type |-> bot_type, persona_cids |-> persona_cids]

\* str.lower() on the letters the messages of the model hold
UpperCase == <<"A", "B", "C", "D", "E", "I", "L", "N", "O", "Q", "R", "V">>
LowerCase == <<"a", "b", "c", "d", "e", "i", "l", "n", "o", "q", "r", "v">>
LowerChar(c) ==
    IF \E k \in 1..Len(UpperCase) : UpperCase[k] = c
    THEN LowerCase[CHOOSE k \in 1..Len(UpperCase) : UpperCase[k] = c]
    ELSE c
Lower(t) == [p \in 1..Len(t) |-> LowerChar(t[p])]

\* k in t
Contains(t, k) ==
    \E p \in 0..(Len(t) - Len(k)) : \A q \in 1..Len(k) : t[p + q] = k[q]

\* line 1313: the words that point at the conversation id
WordConversation ==
    <<"c", "o", "n", "v", "e", "r", "s", "a", "t", "i", "o", "n">>
WordInvalidId ==
    <<"i", "n", "v", "a", "l", "i", "d", " ", "i", "d">>
WordMustNotBeEmpty ==
    <<"m", "u", "s", "t", " ", "n", "o", "t", " ", "b", "e", " ", "e", "m", "p", "t",
      "y">>
FallbackWords == {WordConversation, WordInvalidId, WordMustNotBeEmpty}

\* error messages the API answers with
MsgNotExists ==
    <<"C", "o", "n", "v", "e", "r", "s", "a", "t", "i", "o", "n", " ", "N", "o", "t",
      " ", "E", "x", "i", "s", "t", "s">>
MsgInvalidId ==
    <<"I", "N", "V", "A", "L", "I", "D", " ", "I", "D">>
MsgEmptyQuery ==
    <<"q", "u", "e", "r", "y", " ", "m", "u", "s", "t", " ", "n", "o", "t", " ", "b",
      "e", " ", "e", "m", "p", "t", "y">>
MsgBadRequest ==
    <<"B", "a", "d", " ", "R", "e", "q", "u", "e", "s", "t">>

\* what one top-level call_dify gives: an exception, or a response with a status, a
\* body that is JSON or not, the fields of an error body, the conversation id the
\* body carries (the JSON field, or the match of line 1367 in a text body; empty
\* when there is none) and an answer that is "poor" (invalid and shorter than 50
\* characters, lines 1328-1332) or "fine" (valid, and longer than a poor one)
Result(exc, status, json, message, err, detail, text, c, answer) ==
    [exc |-> exc, status |-> status, json |-> json, message |-> message, error |-> err,
     detail |-> detail, text |-> text, conversation_id |-> c, answer |-> answer]

Failures == {Result("Timeout", 0, FALSE, <<>>, <<>>, <<>>, <<>>, <<>>, "")}

Answers ==
    {Result("", 200, TRUE, <<>>, <<>>, <<>>, <<>>, c, a) :
         c \in Cids \cup {<<>>}, a \in {"poor", "fine"}}
        \cup {Result("", 200, FALSE, <<>>, <<>>, <<>>, <<>>, c, "fine") : c \in Cids \cup {<<>>}}

Refusals ==
    {Result("", 400, TRUE, MsgNotExists, <<>>, <<>>, <<>>, <<>>, ""),
     Result("", 400, TRUE, <<>>, MsgInvalidId, <<>>, <<>>, <<>>, ""),
     Result("", 400, TRUE, <<>>, <<>>, MsgEmptyQuery, <<>>, <<>>, ""),
     Result("", 400, TRUE, MsgBadRequest, MsgNotExists, <<>>, <<>>, <<>>, ""),
     Result("", 400, TRUE, <<>>, <<>>, <<>>, <<>>, <<>>, ""),
     Result("", 400, FALSE, <<>>, <<>>, <<>>, MsgNotExists, <<>>, ""),
     Result("", 400, FALSE, <<>>, <<>>, <<>>, MsgBadRequest, <<>>, ""),
     Result("", 500, FALSE, <<>>, <<>>, <<>>, MsgNotExists, <<>>, "")}

CallResults == Failures \cup Answers \cup Refusals

\* what the call of line 1338 gives: an exception, a fine answer in a conversation of
\* its own, or a poor answer again
RetryResults ==
    Failures \cup {Result("", 200, TRUE, <<>>, <<>>, <<>>, <<>>, CidOf(MaxCids), "fine"),
                   Result("", 200, TRUE, <<>>, <<>>, <<>>, <<>>, <<>>, "poor")}

\* mutant of PayloadOf: the key is always set
PayloadWithKey(c) == [query |-> "asked", conversation_id |-> c]

\* lines 1254-1262
PayloadOf(c) ==
    IF c # <<>> THEN [query |-> "asked", conversation_id |-> c] ELSE [query |-> "asked"]

\* line 1305: payload.get("conversation_id")
CarriesId(payload) ==
    "conversation_id" \in DOMAIN payload /\ payload.conversation_id # <<>>

\* lines 1306-1311
Emsg(res) ==
    IF res.json
    THEN IF res.message # <<>> THEN res.message
         ELSE IF res.error # <<>> THEN res.error
         ELSE res.detail
    ELSE res.text

\* mutant of IdProblem: the message is searched as it is, not in lower case
IdProblemAsWritten(emsg) == \E k \in FallbackWords : Contains(emsg, k)

\* line 1313
IdProblem(emsg) == \E low \in {Lower(emsg)} : \E k \in FallbackWords : Contains(low, k)

\* line 1314: payload.pop("conversation_id")
Pop(payload) == [k \in DOMAIN payload \ {"conversation_id"} |-> payload[k]]

\* line 1336-1337: the payload of the retry for a better answer
Enhanced(payload) == [payload EXCEPT !.query = "asked for more"]

\* mutant of MayStore: the id of the response is stored whatever the session holds
MayStoreAlways(c) == TRUE

\* lines 1355 and 1368: not st.session_state.cid
MayStore(c) == c = <<>>

\* what the turn record holds for an action that sends nothing
Did(action) ==
    [action |-> action, cid_before |-> cid, sent |-> <<>>, first |-> <<>>,
     resent |-> <<>>, retried |-> <<>>]

\* lines 694-701 and 704-705
InitChat ==
    /\ NoCall /\ NoThreads /\ NoChecks /\ NoLog /\ NoDify
    /\ page = "login"
    /\ cid = <<>>
    /\ bot_type = ""
    /\ persona_cids = <<>>
    /\ turn = [action |-> "start", cid_before |-> <<>>, sent |-> <<>>, first |-> <<>>,
               resent |-> <<>>, retried |-> <<>>]

\* lines 723-745: a shared link is opened
Restore ==
    /\ page = "login"
    /\ \E bot \in Personas \cup {"", "unknown"}, c \in Cids \cup {<<>>} :
          LET known == bot # "" /\ bot \in Personas
              ss == IF known THEN [Session EXCEPT !.bot_type = bot] ELSE Session
              ss2 == IF known /\ c # <<>>
                     THEN [set_persona_cid(ss, bot, c) EXCEPT !.cid = c]
                     ELSE ss
          IN  /\ cid' = ss2.cid
              /\ bot_type' = ss2.bot_type
              /\ persona_cids' = ss2.persona_cids
    /\ page' = "chat"
    /\ turn' = Did("restore")
    /\ UNCHANGED <<utilsVars, threadVars, rateVars, logVars, difyVars>>

\* the texts typed into the field of line 871
FormTexts == Cids \cup {<<>>, <<" ">>, <<" ">> \o CidOf(1) \o <<" ">>}

\* lines 875-900: the login form is submitted
LoginSubmit ==
    /\ page = "login"
    /\ \E named \in BOOLEAN, bot \in Personas, existing_cid \in FormTexts :
          IF ~named
          THEN UNCHANGED <<page, cid, bot_type, persona_cids>>
          ELSE LET ss == [Session EXCEPT !.bot_type = bot]
                   ss2 == IF strip(existing_cid) # <<>>
                          THEN [set_persona_cid(ss, bot, strip(existing_cid))
                                    EXCEPT !.cid = strip(existing_cid)]
                          ELSE [ss EXCEPT !.cid = get_persona_cid(ss.persona_cids, bot)]
               IN  /\ cid' = ss2.cid
                   /\ bot_type' = ss2.bot_type
                   /\ persona_cids' = ss2.persona_cids
                   /\ page' = "chat"
    /\ turn' = Did("login")
    /\ UNCHANGED <<utilsVars, threadVars, rateVars, logVars, difyVars>>

\* lines 919-935: the switch button
SwitchPersona ==
    /\ page = "chat"
    /\ \E new_bot_type \in Personas :
          IF new_bot_type = bot_type
          THEN UNCHANGED <<cid, bot_type, persona_cids>>
          ELSE LET ss == set_persona_cid(Session, bot_type, cid)
               IN  /\ persona_cids' = ss.persona_cids
                   /\ bot_type' = new_bot_type
                   /\ cid' = get_persona_cid(ss.persona_cids, new_bot_type)
    /\ turn' = Did("switch")
    /\ UNCHANGED <<page, utilsVars, threadVars, rateVars, logVars, difyVars>>

\* no result: the call was not made
NotCalled == {<<>>}
Called == {<<r>> : r \in CallResults}
Retried == {<<r>> : r \in RetryResults}

\* lines 1303-1313: the first response calls for the resend without the id
NeedsFallback(res, payload) ==
    /\ res.exc = ""
    /\ res.status = 400
    /\ CarriesId(payload)
    /\ IdProblem(Emsg(res))

\* line 1319 and the handlers of lines 1377-1408: the response is read further
Usable(res) == res.exc = "" /\ res.status < 400

\* lines 1328-1332: a poor answer is asked again
NeedsRetry(res) == Usable(res) /\ res.json /\ res.answer = "poor"

\* lines 1338-1346: the retry replaces the answer
Improves(res) == res.exc = "" /\ res.status = 200 /\ res.json /\ res.answer = "fine"

\* lines 1353-1358 and 1366-1371, on the session
StoreNew(ss, new_cid) ==
    IF new_cid # <<>> /\ MayStore(ss.cid)
    THEN set_persona_cid([ss EXCEPT !.cid = new_cid], ss.bot_type, new_cid)
    ELSE ss

\* the requests of a turn, in order
Requests(payload, fallback, retry) ==
    <<[payload |-> payload, why |-> "first"]>>
        \o (IF fallback THEN <<[payload |-> Pop(payload), why |-> "fallback"]>> ELSE <<>>)
        \o (IF retry
            THEN <<[payload |-> Enhanced(IF fallback THEN Pop(payload) ELSE payload),
                    why |-> "quality"]>>
            ELSE <<>>)

\* lines 1217-1426: the user sends a message
ChatTurn ==
    /\ page = "chat"
    /\ \E rate_ok \in BOOLEAN :
       IF bot_type \notin Personas \/ ~rate_ok
       THEN \* lines 1239-1242 and 1293-1297: st.stop() before any request
            /\ turn' = Did("chat")
            /\ UNCHANGED <<cid, bot_type, persona_cids>>
       ELSE
       \E r1 \in CallResults :
       \E fallback \in {NeedsFallback(r1, PayloadOf(cid))} :
       \E o2 \in IF fallback THEN Called ELSE NotCalled :
       \E res \in {IF fallback THEN o2[1] ELSE r1} :
       \E retry \in {NeedsRetry(res)} :
       \E o3 \in IF retry THEN Retried ELSE NotCalled :
       \E rj \in {IF retry /\ Improves(o3[1]) THEN o3[1] ELSE res} :
       \E ss \in {IF Usable(res) THEN StoreNew(Session, rj.conversation_id) ELSE Session} :
          /\ cid' = ss.cid
          /\ persona_cids' = ss.persona_cids
          /\ turn' = [action |-> "chat", cid_before |-> cid,
                      sent |-> Requests(PayloadOf(cid), fallback, retry),
                      first |-> <<r1>>, resent |-> o2, retried |-> o3]
          /\ UNCHANGED bot_type
    /\ UNCHANGED <<page, utilsVars, threadVars, rateVars, logVars, difyVars>>

\* lines 1429-1437
NewConversation ==
    /\ page = "chat"
    /\ LET ss == set_persona_cid(Session, bot_type, <<>>)
       IN  /\ persona_cids' = ss.persona_cids
           /\ cid' = <<>>
    /\ turn' = Did("new")
    /\ UNCHANGED <<page, bot_type, utilsVars, threadVars, rateVars, logVars, difyVars>>

\* lines 1439-1442 and 694-701
Logout ==
    /\ page = "chat"
    /\ page' = "login"
    /\ cid' = <<>>
    /\ persona_cids' = <<>>
    /\ bot_type' = ""
    /\ turn' = Did("logout")
    /\ UNCHANGED <<utilsVars, threadVars, rateVars, logVars, difyVars>>

NextChat ==
    \/ Restore
    \/ LoginSubmit
    \/ SwitchPersona
    \/ ChatTurn
    \/ NewConversation
    \/ Logout

SpecChat == InitChat /\ [][NextChat]_vars

----------------------------------------------------------------------------
(* Reading the returned bytes back *)

\* the text of UTF-8 bytes (of the characters of the model)
RECURSIVE Utf8Decode(_)
Utf8Decode(bytes) ==
    IF bytes = <<>> THEN <<>>
    ELSE IF Len(bytes) >= 2 /\ bytes[1] = "<C3>" /\ bytes[2] = "<A9>"
         THEN <<"U+00E9">> \o Utf8Decode(SubSeq(bytes, 3, Len(bytes)))
    ELSE <<Head(bytes)>> \o Utf8Decode(Tail(bytes))

\* A CSV reader (RFC 4180; a record ends at "\n", "\r" or "\r\n"; an empty line is a
\* record without fields).  st is where the reader stands: "record" at the start of
\* a record, "field" at the start of a further field, "plain" in an unquoted field,
\* "quoted" in a quoted field, "qq" after a quote inside a quoted field.
RECURSIVE ReadCsv(_, _, _, _, _, _)
ReadCsv(t, i, st, field, row, recs) ==
    IF i > Len(t)
    THEN (IF st = "record" THEN recs ELSE Append(recs, Append(row, field)))
    ELSE
    LET c == t[i]
        step == IF c = "\r" /\ i < Len(t) /\ t[i + 1] = "\n" THEN 2 ELSE 1
        eol == c \in {"\n", "\r"}
    IN  IF st = "quoted"
        THEN (IF c = "\"" THEN ReadCsv(t, i + 1, "qq", field, row, recs)
              ELSE ReadCsv(t, i + 1, "quoted", Append(field, c), row, recs))
        ELSE IF st = "qq" /\ c = "\""
        THEN ReadCsv(t, i + 1, "quoted", Append(field, c), row, recs)
        ELSE IF eol
        THEN ReadCsv(t, i + step, "record", <<>>, <<>>,
                     Append(recs, IF st = "record" THEN <<>> ELSE Append(row, field)))
        ELSE IF c = ","
        THEN ReadCsv(t, i + 1, "field", <<>>, Append(row, field), recs)
        ELSE IF c = "\"" /\ st \in {"record", "field"}
        THEN ReadCsv(t, i + 1, "quoted", <<>>, row, recs)
        ELSE ReadCsv(t, i + 1, "plain", Append(field, c), row, recs)

ParseCsv(t) == ReadCsv(t, 1, "record", <<>>, <<>>, <<>>)

\* the table as written: the header, then the text of the cells of each data row
WrittenTable ==
    <<Header>> \o [n \in 1..Len(df_out.data) |->
                      [c \in 1..Len(df_out.data[n]) |-> CellText(df_out.data[n][c])]]

AllFieldsText == \A n \in Records : \A key \in DOMAIN given[n] : IsText(given[n][key])

\* C12: records whose present fields are strings, any keys missing, max_keywords >= 1:
\* the call returns a byte buffer and raises nothing.
C12_NoError ==
    (Done /\ AllFieldsText /\ max_keywords >= 1) => (error = "" /\ IsPrefix(BOM, result))

\* C13: the bytes after the byte-order mark, read by a CSV parser, give back the
\* header and the cells of every row, also with commas, quotes and line breaks in them.
C13_RoundTrip ==
    (Done /\ error = "") => ParseCsv(Utf8Decode(SubSeq(result, 4, Len(result)))) = WrittenTable

\* C14: a returned buffer is the byte-order mark EF BB BF, once, followed by the
\* UTF-8 bytes of the CSV text; also for the empty message list.
C14_BomOnce ==
    (Done /\ error = "") =>
        /\ Len(result) >= 3
        /\ SubSeq(result, 1, 3) = <<"<EF>", "<BB>", "<BF>">>
        /\ ~IsPrefix(<<"<EF>", "<BB>", "<BF>">>, SubSeq(result, 4, Len(result)))
        /\ Utf8Decode(SubSeq(result, 4, Len(result))) = to_csv(df_out, quote_cr)

C14_Witness ==
    /\ Done /\ error = ""
    /\ \E n \in Records : \E p \in 1..Len(ContentIn(n)) : ContentIn(n)[p] = "U+00E9"

C14_WitnessEmptyList == Done /\ error = "" /\ given = <<>>

\* C15: a record whose content is no text (None, a number) makes the call fail with
\* InvalidInput, and no bytes are returned.
C15_InvalidInput ==
    (Done /\ \E n \in Records : "content" \in DOMAIN given[n] /\ ~IsText(given[n]["content"]))
        => (error = "InvalidInput" /\ result = <<>>)

\* C17: with max_keywords <= 0 the call is rejected or no row keeps a keyword: every
\* keyword cell is empty and no truncation suffix is written.
C17_NothingKept ==
    (Done /\ max_keywords <= 0) =>
        \/ error # ""
        \/ \A n \in Records :
              /\ rows[n].kws = <<>>
              /\ \A c \in KeywordColumns : df_out.data[n][c] = <<>>

\* C16: whatever the interleaving of the steps of the threads, a call that has
\* returned has returned the bytes the same call returns when it runs alone.
C16_Independent ==
    \A t \in DOMAIN threads :
        threads[t].pc = "done" =>
            /\ threads[t].error = ""
            /\ threads[t].result = Alone(threads[t].given, threads[t].max_keywords, quote_cr)

\* every thread has returned, every thread took a step while another was inside its
\* call, and two threads were given different records
C16_Witness ==
    /\ threads # <<>>
    /\ \A t \in DOMAIN threads : threads[t].pc = "done" /\ threads[t].overlapped
    /\ \E t, u \in DOMAIN threads : threads[t].given # threads[u].given

----------------------------------------------------------------------------
(* the calls of check_rate_limit made so far *)

Checks == 1..Len(checked)
ChecksOf(k) == {p \in Checks : checked[p].api_key = k}

\* number of entries of list s equal to x
Occurrences(s, x) == Cardinality({p \in 1..Len(s) : s[p] = x})

\* the smallest entry of a non-empty list of times
Oldest(s) == CHOOSE x \in {s[p] : p \in 1..Len(s)} : \A q \in 1..Len(s) : x <= s[q]

\* C18: the list of a key never holds more than max_requests_per_minute timestamps,
\* and of the calls for one key no more than max_requests_per_minute returned True
\* within any span of 60 seconds (from a time a up to, not including, a + 60; it is
\* enough to look at the spans that begin with an accepted call).
C18_RateBounded ==
    /\ \A k \in DOMAIN request_count : Len(request_count[k]) <= max_requests_per_minute
    /\ \A k \in ApiKeys : \A p \in ChecksOf(k) :
          checked[p].ok =>
              Cardinality({q \in ChecksOf(k) :
                              /\ checked[q].ok
                              /\ checked[q].time >= checked[p].time
                              /\ checked[q].time < checked[p].time + 60})
                  <= max_requests_per_minute

\* a key was rejected with its list full, and more calls for it were accepted over
\* the session than its list may hold
C18_Witness ==
    \E k \in ApiKeys :
        /\ \E p \in ChecksOf(k) :
              ~checked[p].ok /\ Len(checked[p].after) = max_requests_per_minute
        /\ Cardinality({q \in ChecksOf(k) : checked[q].ok}) > max_requests_per_minute

\* C19: a rejected call leaves no timestamp in the list that was not there before,
\* and after a rejection the key is accepted again no later than at its first call
\* made more than 60 seconds after the oldest timestamp the rejection left recorded,
\* however many of its calls were rejected in between.
C19_NoProlongedLockout ==
    \A k \in ApiKeys : \A p \in ChecksOf(k) :
        ~checked[p].ok =>
            /\ Len(checked[p].after) <= Len(checked[p].before)
            /\ \A x \in {checked[p].after[n] : n \in 1..Len(checked[p].after)} :
                  Occurrences(checked[p].after, x) <= Occurrences(checked[p].before, x)
            /\ \A q \in ChecksOf(k) :
                  (q > p /\ checked[q].time > Oldest(checked[p].after) + 60) =>
                      \E r \in ChecksOf(k) : p < r /\ r <= q /\ checked[r].ok

\* a key is rejected, rejected again later, and then accepted by its first call made
\* more than 60 seconds after the oldest recorded timestamp
C19_Witness ==
    \E k \in ApiKeys : \E p, r, q \in ChecksOf(k) :
        /\ p < r /\ r < q
        /\ ~checked[p].ok /\ ~checked[r].ok /\ checked[q].ok
        /\ checked[r].time > checked[p].time
        /\ \A n \in ChecksOf(k) : (p < n /\ n < q) => ~checked[n].ok
        /\ checked[q].time > Oldest(checked[p].after) + 60

----------------------------------------------------------------------------
(* the append_row calls of one save_log invocation *)

Succeeded(o) == o.exc = ""
RetryableFailure(o) == o.exc = "APIError" /\ o.code \in {429, 500, 503}

C20_WitnessSuccess ==
    /\ log_pc = "returned"
    /\ Len(tried) = 3
    /\ Succeeded(tried[3])
    /\ shown = <<>>

----------------------------------------------------------------------------
(* the requests.post calls of one top-level call_dify *)

\* C21: at most 4 POST attempts; attempt n (from 1) has timeout 30 + 10 * (n - 1); an
\* attempt is followed by another only when it raised, and then after a sleep of
\* 2 ** (n - 1) seconds; the call returns the response of the first attempt that does
\* not raise, and raises the exception of the fourth attempt when that one raises too.
C21_BoundedPosts ==
    /\ Len(posts) <= 4
    /\ \A n \in 1..Len(posts) : posts[n].timeout = 30 + 10 * (n - 1)
    /\ \A n \in 1..(Len(posts) - 1) : posts[n].exc # ""
    /\ \A n \in 1..Len(waited) : waited[n] = 2 ^ (n - 1)
    /\ dify_pc = "call" => Len(waited) = Len(posts)
    /\ dify_pc = "returned" =>
          /\ posts[Len(posts)].exc = ""
          /\ dify_out = [exc |-> "", status |-> posts[Len(posts)].status]
          /\ Len(waited) = Len(posts) - 1
    /\ dify_pc = "raised" =>
          /\ Len(posts) = 4
          /\ posts[4].exc # ""
          /\ dify_out.exc = posts[4].exc
          /\ Len(waited) = 3

\* four attempts that all raise: three sleeps, then the fourth exception is raised
C21_Witness ==
    /\ dify_pc = "raised"
    /\ Len(posts) = 4
    /\ posts[1].exc = "Timeout"
    /\ posts[4].exc = "ConnectionError"
    /\ dify_out.exc = "ConnectionError"

\* a response at the third attempt
C21_WitnessReturn ==
    /\ dify_pc = "returned"
    /\ Len(posts) = 3
    /\ posts[3].timeout = 50
    /\ waited = <<1, 2>>

----------------------------------------------------------------------------
(* the requests and responses of the chat turn just ended *)

ChatSent == turn.action = "chat" /\ turn.sent # <<>>

HasIdKey(request) == "conversation_id" \in DOMAIN request.payload

\* the resends made because the conversation id looked invalid
Fallbacks == {n \in 1..Len(turn.sent) : turn.sent[n].why = "fallback"}

\* the conversation ids the responses of the turn carried
Issued ==
    {o[1].conversation_id : o \in {turn.first, turn.resent, turn.retried} \ {<<>>}}

\* the conversation id recorded for the current persona ("" when none is)
Recorded == IF bot_type \in DOMAIN persona_cids THEN persona_cids[bot_type] ELSE <<>>

\* C22: the first request of a chat turn carries the key conversation_id exactly when
\* the session's cid was non-empty when the message was submitted, and no request of
\* the turn carries an empty conversation_id (or another id than the session's).
C22_ConversationIdSent ==
    ChatSent =>
        /\ HasIdKey(turn.sent[1]) <=> turn.cid_before # <<>>
        /\ \A n \in 1..Len(turn.sent) :
              HasIdKey(turn.sent[n]) =>
                  /\ turn.sent[n].payload.conversation_id # <<>>
                  /\ turn.sent[n].payload.conversation_id = turn.cid_before

\* the first message of a new conversation was sent, without the key
C22_Witness ==
    /\ ChatSent
    /\ turn.cid_before = <<>>
    /\ ~HasIdKey(turn.sent[1])

\* a message of a running conversation was sent, with its id
C22_WitnessRunning ==
    /\ ChatSent
    /\ turn.cid_before # <<>>
    /\ HasIdKey(turn.sent[1])

\* C23: a chat turn resends for an invalid conversation id at most once, and it does
\* so exactly when the first response has status 400, the first request carried a
\* conversation_id and the error message, in lower case, contains "conversation",
\* "invalid id" or "must not be empty"; the resend is the second request and carries
\* no conversation_id.
C23_FallbackOnce ==
    ChatSent =>
        /\ Cardinality(Fallbacks) <= 1
        /\ Fallbacks # {} <=>
              /\ turn.first[1].exc = ""
              /\ turn.first[1].status = 400
              /\ HasIdKey(turn.sent[1])
              /\ \E k \in {WordConversation, WordInvalidId, WordMustNotBeEmpty} :
                    Contains(Lower(Emsg(turn.first[1])), k)
        /\ \A n \in Fallbacks : n = 2 /\ ~HasIdKey(turn.sent[n])

\* the resend after "Conversation Not Exists", written with capitals
C23_Witness ==
    /\ ChatSent
    /\ Fallbacks = {2}
    /\ Emsg(turn.first[1]) = MsgNotExists

\* C24: when the resend without conversation_id got a successful response carrying a
\* new conversation id, the session's cid and the current persona's recorded id are
\* that new id.
C24_RestartedInNew ==
    (/\ ChatSent
     /\ Fallbacks # {}
     /\ turn.resent # <<>>
     /\ turn.resent[1].exc = ""
     /\ turn.resent[1].status = 200
     /\ turn.resent[1].conversation_id # <<>>)
        => /\ cid = turn.resent[1].conversation_id
           /\ Recorded = turn.resent[1].conversation_id

\* C25: a chat turn that began with a non-empty cid leaves it as it was; a chat turn
\* changes cid only from empty to an id a response of the turn carried; every other
\* change of cid comes from the login form, the restore from query parameters, a
\* persona switch, 'new conversation' or logout.
C25_StoredOnlyWhenEmpty ==
    /\ (turn.action = "chat" /\ turn.cid_before # <<>>) => cid = turn.cid_before
    /\ cid # turn.cid_before =>
          \/ turn.action \in {"login", "restore", "switch", "new", "logout"}
          \/ turn.action = "chat" /\ turn.cid_before = <<>> /\ cid \in Issued

\* a response carried another conversation id than the session's, and cid stayed
C25_Witness ==
    /\ ChatSent
    /\ turn.cid_before # <<>>
    /\ turn.first[1].exc = ""
    /\ turn.first[1].status = 200
    /\ turn.first[1].conversation_id \notin {<<>>, turn.cid_before}
    /\ cid = turn.cid_before

\* the id of the first response was stored into the empty cid
C25_WitnessStored ==
    /\ ChatSent
    /\ turn.cid_before = <<>>
    /\ cid # <<>>
    /\ cid = turn.first[1].conversation_id

\* C26: once the session is set up, after every user action cid is the conversation
\* id recorded for the current persona, the empty text when none is recorded.
C26_CidIsRecorded == page \in {"login", "chat"} => cid = Recorded

\* a switch to a persona that has a conversation of its own, from one that has another
C26_Witness ==
    /\ turn.action = "switch"
    /\ cid # <<>>
    /\ turn.cid_before # <<>>
    /\ cid # turn.cid_before
    /\ Recorded = cid

====
